---- MODULE Spec2Model ----
(***************************************************************************)
(* Design-token extraction and adaptive theming of the Char widget:        *)
(* the page-inspection snippets, the in-place theming of <char-agent>,     *)
(* widget activation and the collapsible sidebar that the live-preview     *)
(* workflow builds into a host page; the workflow's inspection, bundle     *)
(* fetch and CSS injection steps; the colour-scheme classification; and    *)
(* the Fill/Submit form tools of the WebMCP patterns.                      *)
(*                                                                         *)
(* The document is a sequence of element records; the index of a record    *)
(* is the element's identity, element 1 is <body>.  Colours are computed   *)
(* values <<r, g, b, a>>; rgba(0, 0, 0, 0) is the computed value of a      *)
(* transparent/unset background.                                           *)
(***************************************************************************)
EXTENDS Integers, Sequences, FiniteSets, TLC

\* ------------------------------------------------------------------ bounds
MaxHost == 2        \* host elements under <body> when the session starts
MaxPanels == 1      \* times the sidebar script is run successfully
MaxRequests == 2    \* times the fetch script is run in one session
MaxStyles == 1      \* times the CSS injection script is run
MaxPending == 1     \* submit calls awaiting the backend at the same time

\* --------------------------------------------------------------- constants
Nil == 0                         \* querySelector found nothing (null)
Absent == <<>>                   \* a colour that is null / not set
Transparent == <<0, 0, 0, 0>>    \* rgba(0, 0, 0, 0)
White == <<255, 255, 255, 1>>
Black == <<0, 0, 0, 1>>
Ink == <<51, 51, 51, 1>>         \* #333333
Night == <<17, 24, 39, 1>>       \* rgb(17, 24, 39)
Brand == <<102, 126, 234, 1>>    \* #667eea
Red == <<220, 38, 38, 1>>
Grey == <<200, 200, 200, 1>>
LinkBlue == <<37, 99, 235, 1>>   \* #2563eb
DefaultLink == <<100, 108, 255, 1>>   \* '#646cff'
CollapsedWidth == "0"
ExpandedWidth == "420px"
DefaultRadius == "8px"

NoStyle == [overflow |-> "", width |-> "", borderColor |-> "", display |-> ""]

\* The four custom properties the in-place theming writes on <char-agent>.
InPlaceVars ==
  {"--char-color-background", "--char-color-foreground",
   "--char-color-primary", "--char-color-muted"}

NoVars == [v \in InPlaceVars |-> Absent]

\* The custom properties Step 2 of the live preview reads off :root.
HostColorVars ==
  {"--primary", "--primary-foreground", "--background", "--foreground",
   "--card", "--card-foreground", "--muted", "--muted-foreground",
   "--border", "--input", "--ring", "--sidebar", "--sidebar-foreground",
   "--accent", "--accent-foreground", "--destructive"}

SlateFifty == <<248, 250, 252, 1>>   \* #f8fafc
Amber == <<250, 204, 21, 1>>         \* #facc15
SystemFont == "system-ui, sans-serif"
MonoFont == "monospace"              \* what <code> computes to

\* A site that defines no custom property: getPropertyValue gives ''.
PlainHost ==
  [colors |-> [v \in HostColorVars |-> Absent], radius |-> "",
   fontFamily |-> SystemFont]

\* A shadcn-style site; it defines neither --card nor --ring.
ShadcnHost ==
  [colors |-> [v \in HostColorVars |->
                 CASE v = "--primary" -> Brand
                   [] v = "--primary-foreground" -> SlateFifty
                   [] v = "--background" -> White
                   [] v = "--foreground" -> Night
                   [] v = "--muted" -> Grey
                   [] v = "--muted-foreground" -> Ink
                   [] v = "--border" -> Grey
                   [] v = "--input" -> Grey
                   [] v = "--destructive" -> Red
                   [] OTHER -> Absent],
   radius |-> "0.5rem", fontFamily |-> "Inter, sans-serif"]

\* A site with a light brand colour, white text on it, a card and a ring.
AmberHost ==
  [colors |-> [v \in HostColorVars |->
                 CASE v = "--primary" -> Amber
                   [] v = "--primary-foreground" -> White
                   [] v = "--background" -> Night
                   [] v = "--foreground" -> White
                   [] v = "--card" -> Ink
                   [] v = "--ring" -> LinkBlue
                   [] OTHER -> Absent],
   radius |-> "12px", fontFamily |-> SystemFont]

Hosts == {PlainHost, ShadcnHost, AmberHost}

\* A computed background with no RGB components (a gradient, a keyword).
NonRgb == <<-1>>
\* A colour whose weighted luminance is exactly one half.
HalfLuminance == <<22, 206, 0, 1>>
Preferences == {"dark", "light", "unavailable"}

NoResult == [op |-> "none", ok |-> TRUE, value |-> "none"]
FreshWindow == [charCode |-> "undefined", registered |-> FALSE]
NothingExtracted == [vars |-> <<>>, fonts |-> <<>>]
\* The IDP configuration form of the Fill/Submit pattern.
Fields == {"idp_type", "client_id", "domain"}

\* let formState = { idp_type: null, client_id: "", domain: "" };
EmptyFormState ==
  [k \in Fields |-> IF k = "idp_type" THEN "null" ELSE ""]

\* What the backend holds before anything was posted to it.
NothingSaved == [k \in Fields |-> "none"]

\* The description a tool is registered with quotes the state at that time.
describe(formState, isDirty) == [formState |-> formState, isDirty |-> isDirty]

\* The page after its script ran: registerFormTools() was called once.
InitialForm ==
  [formState |-> EmptyFormState,
   isDirty |-> FALSE,
   shown |-> [k \in Fields |-> ""],
   fillDescription |-> describe(EmptyFormState, FALSE),
   submitDescription |-> FALSE,
   pending |-> <<>>,
   backend |-> NothingSaved]

\* Current: ${config.idp_type ?? "not configured"}
describeConfig(config) ==
  IF config["idp_type"] = "null" THEN "not configured" ELSE config["idp_type"]

\* The Read/Fill page once registerIdpConfigTool() has registered the tool.
InitialTool ==
  [config |-> EmptyFormState,
   description |-> describeConfig(EmptyFormState),
   pending |-> <<>>,
   api |-> NothingSaved]

\* A string of the setup script is a sequence of symbols; an argument that is
\* missing (null, undefined) and the empty string are both <<>>: the script
\* only ever tests them for truthiness.
CheckApiKeyFlag == <<"--check-api-key">>
KeyPrefix == <<"s", "k", "-", "a", "n", "t", "-">>
MinKeyLength == 50

Filler(n) == [i \in 1..n |-> "x"]

\* Keys of 50 and 49 characters, one without the prefix, one of blanks.
GoodKey == KeyPrefix \o Filler(43)
ShortKey == KeyPrefix \o Filler(42)
ForeignKey == <<"s", "k", "-">> \o Filler(60)
BlankKey == <<" ">>

\* A machine on which every check of the script succeeds.
DefaultEnv ==
  [nodeVersion |-> <<18, 17>>,
   browsers |-> <<[status |-> "match", version |-> 120],
                  [status |-> "failed", version |-> 0],
                  [status |-> "failed", version |-> 0],
                  [status |-> "failed", version |-> 0]>>,
   template |-> TRUE,
   disk |-> [status |-> "ok", freeMB |-> 5000],
   network |-> TRUE,
   claude |-> TRUE,
   argv |-> <<>>]

\* ---------------------------------------------------------------- the page
\* What a host page can contain: tag, class list and computed presentation.
\* The layout of a page the sidebar is previewed on; it embeds no widget yet.
LayoutKinds ==
  { [tag |-> "div", cls |-> {"flex", "h-screen", "w-full"}, bg |-> Transparent,
     color |-> Ink, radius |-> "0px", disabled |-> FALSE],
    [tag |-> "div", cls |-> {"flex"}, bg |-> Transparent,
     color |-> Ink, radius |-> "0px", disabled |-> FALSE],
    [tag |-> "button", cls |-> {}, bg |-> Brand,
     color |-> White, radius |-> "8px", disabled |-> FALSE] }

\* The content of a page whose colours are extracted.
ContentKinds ==
  { [tag |-> "div", cls |-> {"btn"}, bg |-> Red,
     color |-> White, radius |-> "4px", disabled |-> FALSE],
    [tag |-> "button", cls |-> {}, bg |-> Brand,
     color |-> White, radius |-> "8px", disabled |-> FALSE],
    [tag |-> "button", cls |-> {}, bg |-> Transparent,
     color |-> Ink, radius |-> "0px", disabled |-> FALSE],
    [tag |-> "button", cls |-> {}, bg |-> Grey,
     color |-> Ink, radius |-> "4px", disabled |-> TRUE],
    [tag |-> "a", cls |-> {}, bg |-> Transparent,
     color |-> LinkBlue, radius |-> "0px", disabled |-> FALSE],
    [tag |-> "a", cls |-> {"cta"}, bg |-> LinkBlue,
     color |-> White, radius |-> "50%", disabled |-> FALSE],
    [tag |-> "char-agent", cls |-> {}, bg |-> Transparent,
     color |-> Ink, radius |-> "0px", disabled |-> FALSE] }

\* A page the live preview inspects: it may show code samples and buttons.
PreviewKinds ==
  { [tag |-> "code", cls |-> {}, bg |-> Transparent,
     color |-> Ink, radius |-> "0px", disabled |-> FALSE],
    [tag |-> "button", cls |-> {}, bg |-> Brand,
     color |-> White, radius |-> "8px", disabled |-> FALSE] }

\* The computed background and text colour of <body> in the site's light and
\* dark mode.
SiteThemes ==
  { [bg |-> White, color |-> Ink],
    [bg |-> Night, color |-> White] }

\* A body that sets no background computes to rgba(0, 0, 0, 0).
BodyThemes == SiteThemes \cup { [bg |-> Transparent, color |-> Black] }

Element(tag, elId, cls, parent, style, bg, color, radius, disabled) ==
  [tag |-> tag, elId |-> elId, cls |-> cls, parent |-> parent,
   children |-> <<>>, style |-> style, vars |-> NoVars, attrs |-> {},
   bg |-> bg, color |-> color, radius |-> radius, disabled |-> disabled]

Min(S) == CHOOSE x \in S : \A y \in S : x <= y

RECURSIVE Ascending(_)
Ascending(S) ==
  IF S = {} THEN <<>> ELSE <<Min(S)>> \o Ascending(S \ {Min(S)})

\* The page with n host elements: host element i is element i + 1, of kind
\* kinds[i], child of element par[i]; siblings are in source order.
MakePage(n, kinds, par, theme) ==
  [ i \in 1..(n + 1) |->
      LET kids == Ascending({ j \in 2..(n + 1) : par[j - 1] = i })
          el == IF i = 1
                  THEN Element("body", "", {}, Nil, NoStyle,
                               theme.bg, theme.color, "0px", FALSE)
                  ELSE Element(kinds[i - 1].tag, "", kinds[i - 1].cls,
                               par[i - 1], NoStyle, kinds[i - 1].bg,
                               kinds[i - 1].color, kinds[i - 1].radius,
                               kinds[i - 1].disabled)
      IN [el EXCEPT !.children = kids] ]

HostPages(Kinds, Themes) ==
  { MakePage(n, kinds, par, theme) :
      n \in {0}, kinds \in {<<>>}, par \in {<<>>}, theme \in Themes }
  \cup
  UNION { { MakePage(n, kinds, par, theme) :
              kinds \in [1..n -> Kinds],
              par \in { p \in [1..n -> 1..n] : \A i \in 1..n : p[i] <= i },
              theme \in Themes } : n \in 1..MaxHost }

\* ------------------------------------------------------------- DOM queries
RECURSIVE Preorder(_, _), PreorderAll(_, _)
Preorder(d, id) == <<id>> \o PreorderAll(d, d[id].children)
PreorderAll(d, ids) ==
  IF ids = <<>> THEN <<>>
  ELSE Preorder(d, Head(ids)) \o PreorderAll(d, Tail(ids))

\* document.querySelector: the first element in document order among the
\* elements the selector matches, null when it matches none.
querySelector(d, matching) ==
  LET ord == Preorder(d, 1)
      hits == { i \in 1..Len(ord) : ord[i] \in matching }
  IN IF hits = {} THEN Nil ELSE ord[Min(hits)]

\* Mutant: the new element is inserted before the parent's first child.
prependChild(d, parent, el) ==
  LET id == Len(d) + 1
  IN [ Append(d, [el EXCEPT !.parent = parent])
         EXCEPT ![parent].children = <<id>> \o @ ]

\* document.createElement followed by parent.appendChild.
appendChild(d, parent, el) ==
  LET id == Len(d) + 1
  IN [ Append(d, [el EXCEPT !.parent = parent])
         EXCEPT ![parent].children = Append(@, id) ]

\* ------------------------------------------------------------------- state
VARIABLES
  dom,             \* the document: element records, element 1 is <body>
  clickListeners,  \* click handlers: [target, panel, btn]
  closeListeners,  \* 'char-close' handlers on document, in registration order
  result,          \* what the last evaluated script returned
  host,            \* computed style of the host's root: custom properties, font
  head,            \* <style> elements the preview appended to <head>
  window,          \* page globals: __charCode and the custom-element registry
  requests,        \* requests sent to the CDN for the widget bundle
  extracted,       \* what the operator has noted down from Steps 2 and 3
  prefersDark,     \* matchMedia('(prefers-color-scheme: dark)')
  form,            \* the form page: formState, isDirty, tools, backend
  idpTool,         \* the Read/Fill page: config, registration, saves, API
  env              \* what verify-setup.js finds on the machine it runs on

vars == <<dom, clickListeners, closeListeners, result, host, head, window,
          requests, extracted, prefersDark, form, idpTool, env>>

\* What the page-inspection, panel and in-place theming scripts never touch.
rest == <<host, head, window, requests, extracted, prefersDark, form,
          idpTool, env>>

\* The parts of the session a workflow does not use stay as they start.
PreviewIdle ==
  /\ host = PlainHost
  /\ head = <<>>
  /\ window = FreshWindow
  /\ requests = 0
  /\ extracted = NothingExtracted

Untouched ==
  /\ PreviewIdle
  /\ prefersDark = "unavailable"
  /\ form = InitialForm
  /\ idpTool = InitialTool
  /\ env = DefaultEnv

\* The live preview starts on a freshly loaded page of somebody else's site.
Init ==
  /\ dom \in HostPages(LayoutKinds, SiteThemes)
  /\ clickListeners = {}
  /\ closeListeners = <<>>
  /\ result = NoResult
  /\ Untouched

\* -------------------------------------------------- the collapsible sidebar
IsAppShellExact(el) == {"flex", "h-screen", "w-full"} \subseteq el.cls
HasFlexClass(el) == "flex" \in el.cls

\* querySelector('.flex.h-screen.w-full') || querySelector('[class*="flex"]')
FindAppShell(d) ==
  IF querySelector(d, { i \in 1..Len(d) : IsAppShellExact(d[i]) }) # Nil
    THEN querySelector(d, { i \in 1..Len(d) : IsAppShellExact(d[i]) })
    ELSE querySelector(d, { i \in 1..Len(d) : HasFlexClass(d[i]) })

\* Mutant: the panel is created at its expanded width.
PanelStyleOpen ==
  [overflow |-> "hidden", width |-> ExpandedWidth,
   borderColor |-> "transparent", display |-> ""]

\* panel.style.cssText of the sidebar script.
PanelStyle ==
  [overflow |-> "hidden", width |-> CollapsedWidth,
   borderColor |-> "transparent", display |-> ""]
InnerStyle == [NoStyle EXCEPT !.width = ExpandedWidth]
AgentStyle == [NoStyle EXCEPT !.width = "100%", !.display = "block"]
ToggleStyle == [NoStyle EXCEPT !.width = "48px", !.display = "flex"]

Panels(d) == { i \in 1..Len(d) : d[i].elId = "char-panel" }
Toggles(d) == { i \in 1..Len(d) : d[i].elId = "char-toggle" }

\* The sidebar script.  With no app shell the first statement,
\* appShell.style.overflow = 'hidden', throws a TypeError on null.
BuildInjectedPanel ==
  /\ Cardinality(Panels(dom)) < MaxPanels
  /\ LET appShell == FindAppShell(dom)
     IN IF appShell = Nil
          THEN /\ result' = [op |-> "buildInjectedPanel", ok |-> FALSE,
                             value |-> "TypeError"]
               /\ UNCHANGED <<rest, dom, clickListeners, closeListeners>>
          ELSE LET d0 == [dom EXCEPT ![appShell].style.overflow = "hidden"]
                   panel == Len(d0) + 1
                   d1 == appendChild(d0, appShell,
                           Element("div", "char-panel", {}, Nil, PanelStyle,
                                   Transparent, Ink, "0px", FALSE))
                   d2 == appendChild(d1, panel,
                           Element("div", "", {}, Nil, InnerStyle,
                                   Transparent, Ink, "0px", FALSE))
                   d3 == appendChild(d2, panel + 1,
                           Element("char-agent", "", {}, Nil, AgentStyle,
                                   Transparent, Ink, "0px", FALSE))
                   btn == Len(d3) + 1
                   d4 == appendChild(d3, 1,
                           Element("button", "char-toggle", {}, Nil,
                                   ToggleStyle, Transparent, Ink, "50%",
                                   FALSE))
               IN /\ dom' = d4
                  /\ clickListeners' = clickListeners \cup
                       {[target |-> btn, panel |-> panel, btn |-> btn]}
                  /\ closeListeners' = Append(closeListeners,
                       [panel |-> panel, btn |-> btn])
                  /\ result' = [op |-> "buildInjectedPanel", ok |-> TRUE,
                                value |-> "sidebar injected"]
                  /\ UNCHANGED rest

\* Mutant: the click handler flips the panel, closing one that is open.
onToggleClickFlip(d, l) ==
  IF d[l.panel].style.width = CollapsedWidth
    THEN [d EXCEPT ![l.panel].style.width = ExpandedWidth,
                   ![l.panel].style.borderColor = "var(--border)",
                   ![l.btn].style.display = "none"]
    ELSE [d EXCEPT ![l.panel].style.width = CollapsedWidth,
                   ![l.panel].style.borderColor = "transparent",
                   ![l.btn].style.display = "flex"]

\* The click handler of the toggle button.
onToggleClick(d, l) ==
  [d EXCEPT ![l.panel].style.width = ExpandedWidth,
            ![l.panel].style.borderColor = "var(--border)",
            ![l.btn].style.display = "none"]

\* Mutant: the handler collapses the panel and leaves the toggle hidden.
onCharCloseKeepsToggleHidden(d, l) ==
  [d EXCEPT ![l.panel].style.width = CollapsedWidth,
            ![l.panel].style.borderColor = "transparent"]

\* One 'char-close' handler.
onCharClose(d, l) ==
  [d EXCEPT ![l.panel].style.width = CollapsedWidth,
            ![l.panel].style.borderColor = "transparent",
            ![l.btn].style.display = "flex"]

RECURSIVE dispatchCharClose(_, _)
dispatchCharClose(d, ls) ==
  IF ls = <<>> THEN d
  ELSE dispatchCharClose(onCharClose(d, Head(ls)), Tail(ls))

\* A click on a toggle button (by the user, or by the open-and-screenshot step).
ToggleClick(b) ==
  /\ \E l \in clickListeners : l.target = b
  /\ LET l == CHOOSE l \in clickListeners : l.target = b
     IN dom' = onToggleClick(dom, l)
  /\ UNCHANGED <<rest, clickListeners, closeListeners, result>>

\* The widget's close control dispatches 'char-close' on document.
CharClose ==
  /\ dom' = dispatchCharClose(dom, closeListeners)
  /\ UNCHANGED <<rest, clickListeners, closeListeners, result>>

\* ------------------------------------------------------ manual extraction
IsPrimaryCandidate(el) ==
  el.tag = "button" \/ "btn" \in el.cls \/ "cta" \in el.cls

\* const button = document.querySelector('button, .btn, .cta');
\* const primary = button ? getComputedStyle(button).backgroundColor : null;
extractPrimaryColor(d) ==
  LET button == querySelector(d, { i \in 1..Len(d) : IsPrimaryCandidate(d[i]) })
  IN IF button # Nil THEN d[button].bg ELSE Absent

\* Mutant: a transparent body background is reported as null.
extractBackgroundAndForegroundOrNull(d) ==
  [backgroundColor |-> IF d[1].bg = Transparent THEN Absent ELSE d[1].bg,
   foregroundColor |-> d[1].color]

\* getComputedStyle(document.body).backgroundColor and .color
extractBackgroundAndForeground(d) ==
  [backgroundColor |-> d[1].bg, foregroundColor |-> d[1].color]

IsRadiusCandidate(el) ==
  el.tag = "button" \/ "btn" \in el.cls \/ el.tag = "input" \/ "card" \in el.cls

\* const button = document.querySelector('button, .btn, input, .card');
\* const radius = button ? getComputedStyle(button).borderRadius : '8px';
extractCornerRadius(d) ==
  LET button == querySelector(d, { i \in 1..Len(d) : IsRadiusCandidate(d[i]) })
  IN IF button # Nil THEN d[button].radius ELSE DefaultRadius

DesignTokenSet(d) ==
  [primaryColor |-> extractPrimaryColor(d),
   backgroundColor |-> extractBackgroundAndForeground(d).backgroundColor,
   foregroundColor |-> extractBackgroundAndForeground(d).foregroundColor,
   cornerRadius |-> extractCornerRadius(d)]

\* The extraction script is evaluated in the page and returns the tokens.
ExtractTokens ==
  /\ result' = [op |-> "extractTokens", ok |-> TRUE,
                value |-> DesignTokenSet(dom)]
  /\ UNCHANGED <<rest, dom, clickListeners, closeListeners>>

\* ------------------------------------------------------- in-place theming
IsAnchor(el) == el.tag = "a"
IsCharAgent(el) == el.tag = "char-agent"

\* const linkColor = linkElement ? getComputedStyle(linkElement).color : '#646cff';
linkColor(d) ==
  LET linkElement == querySelector(d, { i \in 1..Len(d) : IsAnchor(d[i]) })
  IN IF linkElement # Nil THEN d[linkElement].color ELSE DefaultLink

\* The values the styling snippet reads off the host page.
hostTokens(d) ==
  [backgroundColor |-> d[1].bg, color |-> d[1].color,
   linkColor |-> linkColor(d)]

\* Which value each widget variable receives.
mapTokensToThemeVariables(t) ==
  [v \in InPlaceVars |->
     CASE v = "--char-color-background" -> t.backgroundColor
       [] v = "--char-color-foreground" -> t.color
       [] v = "--char-color-primary" -> t.linkColor
       [] v = "--char-color-muted" -> t.backgroundColor]

\* Mutant: a property that is already set is not overwritten.
setPropertyIfUnset(d, el, name, value) ==
  IF d[el].vars[name] = Absent THEN [d EXCEPT ![el].vars[name] = value] ELSE d

\* agent.style.setProperty(name, value)
setProperty(d, el, name, value) == [d EXCEPT ![el].vars[name] = value]

\* The four setProperty calls, in the order of the snippet.
applyThemeInPlace(d, agent, m) ==
  setProperty(
    setProperty(
      setProperty(
        setProperty(d, agent, "--char-color-background",
                    m["--char-color-background"]),
        agent, "--char-color-foreground", m["--char-color-foreground"]),
      agent, "--char-color-primary", m["--char-color-primary"]),
    agent, "--char-color-muted", m["--char-color-muted"])

\* The styling snippet: it does nothing when the page has no <char-agent>.
ApplyThemeInPlace ==
  LET agent == querySelector(dom, { i \in 1..Len(dom) : IsCharAgent(dom[i]) })
      m == mapTokensToThemeVariables(hostTokens(dom))
  IN IF agent = Nil
       THEN /\ result' = [op |-> "applyThemeInPlace", ok |-> TRUE,
                          value |-> [agent |-> Nil, map |-> m,
                                     before |-> NoVars]]
            /\ UNCHANGED <<rest, dom, clickListeners, closeListeners>>
       ELSE /\ dom' = applyThemeInPlace(dom, agent, m)
            /\ result' = [op |-> "applyThemeInPlace", ok |-> TRUE,
                          value |-> [agent |-> agent, map |-> m,
                                     before |-> dom[agent].vars]]
            /\ UNCHANGED <<rest, clickListeners, closeListeners>>

\* The site's own light/dark switch restyles <body>.
ToggleSiteTheme ==
  /\ [bg |-> dom[1].bg, color |-> dom[1].color] \in SiteThemes
  /\ \E theme \in SiteThemes :
       /\ [bg |-> dom[1].bg, color |-> dom[1].color] # theme
       /\ dom' = [dom EXCEPT ![1].bg = theme.bg, ![1].color = theme.color]
  /\ UNCHANGED <<rest, clickListeners, closeListeners, result>>

\* ---------------------------------------------------- activate the widget
\* Mutant: setting the open attribute also opens the panel around the agent.
setActivationAttributesAndOpen(d, agent) ==
  LET inner == d[agent].parent
      panel == IF inner = Nil THEN Nil ELSE d[inner].parent
  IN IF panel # Nil /\ d[panel].elId = "char-panel"
       THEN [d EXCEPT ![agent].attrs = @ \cup {"dev-mode", "open"},
                      ![panel].style.width = ExpandedWidth]
       ELSE [d EXCEPT ![agent].attrs = @ \cup {"dev-mode", "open"}]

\* setAttribute('dev-mode', ...) and setAttribute('open', 'true')
setActivationAttributes(d, agent) ==
  [d EXCEPT ![agent].attrs = @ \cup {"dev-mode", "open"}]

\* agent.setAttribute('dev-mode', ...); agent.setAttribute('open', 'true');
\* with no <char-agent> in the page, agent is null and setAttribute throws.
ActivateWidget ==
  LET agent == querySelector(dom, { i \in 1..Len(dom) : IsCharAgent(dom[i]) })
  IN IF agent = Nil
       THEN /\ result' = [op |-> "activateWidget", ok |-> FALSE,
                          value |-> "TypeError"]
            /\ UNCHANGED <<rest, dom, clickListeners, closeListeners>>
       ELSE /\ dom' = setActivationAttributes(dom, agent)
            /\ result' = [op |-> "activateWidget", ok |-> TRUE,
                          value |-> "dev-mode set"]
            /\ UNCHANGED <<rest, clickListeners, closeListeners>>

\* ------------------------------------------ live preview: Steps 2, 3, 6, 7
\* Step 2: result[v] = root.getPropertyValue(v).trim() for each listed name.
extractCssVariables(h) == [colors |-> h.colors, radius |-> h.radius]

ExtractCssVariables ==
  /\ result' = [op |-> "extractCssVariables", ok |-> TRUE,
                value |-> extractCssVariables(host)]
  /\ extracted' = [extracted EXCEPT !.vars = <<extractCssVariables(host)>>]
  /\ UNCHANGED <<dom, clickListeners, closeListeners, host, head, window,
                 requests, prefersDark, form, idpTool, env>>

IsCode(el) == el.tag = "code"

\* Step 3: the font of <body>, and of the first <code> or else of <body>.
extractFonts(d, h) ==
  LET code == querySelector(d, { i \in 1..Len(d) : IsCode(d[i]) })
  IN [fontFamily |-> h.fontFamily,
      monoFont |-> IF code # Nil THEN MonoFont ELSE h.fontFamily]

\* Mutant: with no <code> in the page a probe element is appended to measure.
ExtractFontsWithProbe ==
  LET code == querySelector(dom, { i \in 1..Len(dom) : IsCode(dom[i]) })
      probed == IF code # Nil THEN dom
                ELSE appendChild(dom, 1,
                       Element("code", "", {}, Nil, NoStyle, Transparent,
                               Ink, "0px", FALSE))
  IN /\ dom' = probed
     /\ result' = [op |-> "extractFonts", ok |-> TRUE,
                   value |-> extractFonts(probed, host)]
     /\ extracted' = [extracted EXCEPT !.fonts = <<extractFonts(probed, host)>>]
     /\ UNCHANGED <<clickListeners, closeListeners, host, head, window,
                    requests, prefersDark, form, idpTool, env>>

ExtractFonts ==
  /\ result' = [op |-> "extractFonts", ok |-> TRUE,
                value |-> extractFonts(dom, host)]
  /\ extracted' = [extracted EXCEPT !.fonts = <<extractFonts(dom, host)>>]
  /\ UNCHANGED <<dom, clickListeners, closeListeners, host, head, window,
                 requests, prefersDark, form, idpTool, env>>

\* Step 6: what the CDN can answer to the request for the bundle.
CdnResponses == {"ok", "notFound", "networkError"}

\* const r = await fetch(url); const text = await r.text();
\* window.__charCode = text;   -- r.ok is not looked at; fetch rejects only
\* on a network error, and then nothing after the await runs.
fetchBundle(w, response) ==
  CASE response = "ok" -> [w EXCEPT !.charCode = "bundle"]
    [] response = "notFound" -> [w EXCEPT !.charCode = "errorBody"]
    [] response = "networkError" -> w

FetchBundle ==
  /\ requests < MaxRequests
  /\ \E response \in CdnResponses :
       /\ window' = fetchBundle(window, response)
       /\ result' = [op |-> "fetchBundle", ok |-> response # "networkError",
                     value |-> [response |-> response]]
  /\ requests' = requests + 1
  /\ UNCHANGED <<dom, clickListeners, closeListeners, host, head, extracted,
                 prefersDark, form, idpTool, env>>

\* eval(window.__charCode); return { registered: !!customElements.get(..) }
\* eval(undefined) is undefined; the text of an error page is not a program.
EvalBundle ==
  /\ CASE window.charCode = "bundle" ->
            /\ window' = [window EXCEPT !.registered = TRUE]
            /\ result' = [op |-> "evalBundle", ok |-> TRUE,
                          value |-> [registered |-> TRUE]]
       [] window.charCode = "undefined" ->
            /\ window' = window
            /\ result' = [op |-> "evalBundle", ok |-> TRUE,
                          value |-> [registered |-> window.registered]]
       [] window.charCode = "errorBody" ->
            /\ window' = window
            /\ result' = [op |-> "evalBundle", ok |-> FALSE,
                          value |-> [registered |-> window.registered]]
  /\ UNCHANGED <<dom, clickListeners, closeListeners, host, head, requests,
                 extracted, prefersDark, form, idpTool, env>>

\* Step 7: the custom properties of the injected :root rule.
InjectedVars ==
  {"--char-color-primary", "--char-color-background",
   "--char-color-foreground", "--char-color-primary-foreground",
   "--char-color-muted", "--char-color-muted-foreground",
   "--char-color-border", "--char-color-input", "--char-color-ring",
   "--char-color-error", "--char-radius", "--char-font-sans",
   "--char-font-mono"}

\* 'a or b' of the template: the first that the site defines.
firstDefined(a, b) == IF a # Absent THEN a ELSE b

\* Which extracted value each declaration of the :root rule carries.
mapExtractedVariables(v, f) ==
  [n \in InjectedVars |->
     CASE n = "--char-color-primary" -> v.colors["--primary"]
       [] n = "--char-color-background" ->
            firstDefined(v.colors["--card"], v.colors["--background"])
       [] n = "--char-color-foreground" -> v.colors["--foreground"]
       [] n = "--char-color-primary-foreground" ->
            v.colors["--primary-foreground"]
       [] n = "--char-color-muted" -> v.colors["--muted"]
       [] n = "--char-color-muted-foreground" -> v.colors["--muted-foreground"]
       [] n = "--char-color-border" -> v.colors["--border"]
       [] n = "--char-color-input" -> v.colors["--input"]
       [] n = "--char-color-ring" ->
            firstDefined(v.colors["--ring"], v.colors["--primary"])
       [] n = "--char-color-error" -> v.colors["--destructive"]
       [] n = "--char-radius" -> v.radius
       [] n = "--char-font-sans" -> f.fontFamily
       [] n = "--char-font-mono" -> f.monoFont]

\* document.head.appendChild(style), with the values noted in Steps 2 and 3.
InjectCss ==
  /\ Len(head) < MaxStyles
  /\ extracted.vars # <<>>
  /\ extracted.fonts # <<>>
  /\ head' = Append(head, mapExtractedVariables(extracted.vars[1],
                                                extracted.fonts[1]))
  /\ result' = [op |-> "injectCss", ok |-> TRUE, value |-> "css injected"]
  /\ UNCHANGED <<dom, clickListeners, closeListeners, host, window, requests,
                 extracted, prefersDark, form, idpTool, env>>

\* ------------------------------------------------ colour scheme of the page
\* The solid backgrounds a page is classified on, and one that is not a colour.
GreyLevels == {0, 127, 128, 255}

SchemeBackgrounds ==
  { <<r, g, b, 1>> : r \in GreyLevels, g \in GreyLevels, b \in GreyLevels }
  \cup {Night, Brand, Amber, HalfLuminance, NonRgb}

SchemePages ==
  { MakePage(0, <<>>, <<>>, [bg |-> c, color |-> Ink]) :
      c \in SchemeBackgrounds }
  \cup { MakePage(0, <<>>, <<>>, theme) : theme \in SiteThemes }

\* The RGB components of a computed colour, if it has any.
parseRgb(c) == IF Len(c) >= 3 THEN <<c[1], c[2], c[3]>> ELSE Absent

\* 0.299 R + 0.587 G + 0.114 B on the 0..1 scale, times 255000.
luminance(rgb) == 299 * rgb[1] + 587 * rgb[2] + 114 * rgb[3]

\* Mutant: a luminance of exactly one half counts as light.
isLightOrHalf(rgb) == luminance(rgb) >= 127500

\* light if luminance exceeds 0.5
isLight(rgb) == luminance(rgb) > 127500

\* Mutant: the system preference, when there is one, wins over the page.
classifyColorSchemePreferenceFirst(bg, preference) ==
  IF preference \in {"dark", "light"} THEN preference
  ELSE IF parseRgb(bg) # Absent
         THEN IF isLight(parseRgb(bg)) THEN "light" ELSE "dark"
         ELSE "light"

\* computed luminance -> system preference -> static default
classifyColorScheme(bg, preference) ==
  IF parseRgb(bg) # Absent
    THEN IF isLight(parseRgb(bg)) THEN "light" ELSE "dark"
    ELSE IF preference \in {"dark", "light"} THEN preference
    ELSE "light"

ClassifyColorScheme ==
  /\ result' = [op |-> "classifyColorScheme", ok |-> TRUE,
                value |-> [colorScheme |->
                             classifyColorScheme(dom[1].bg, prefersDark),
                           backgroundColor |-> dom[1].bg,
                           preference |-> prefersDark]]
  /\ UNCHANGED <<rest, dom, clickListeners, closeListeners>>

\* The user switches the operating system between light and dark.
SystemPreferenceChange ==
  /\ prefersDark \in {"dark", "light"}
  /\ prefersDark' = IF prefersDark = "dark" THEN "light" ELSE "dark"
  /\ UNCHANGED <<dom, clickListeners, closeListeners, result, host, head,
                 window, requests, extracted, form, idpTool, env>>

\* --------------------------------------------- the widget's theme variables
\* The documented core variables.
CoreVariables ==
  {"--char-color-background", "--char-color-foreground",
   "--char-color-primary", "--char-color-primary-foreground",
   "--char-color-muted", "--char-color-muted-foreground",
   "--char-color-border", "--char-radius", "--char-font-sans"}

\* The documented semantic variables.
SemanticVariables ==
  {"--char-user-bubble-bg", "--char-user-bubble-text",
   "--char-assistant-bubble-bg", "--char-assistant-bubble-text",
   "--char-composer-bg", "--char-composer-border", "--char-composer-text",
   "--char-composer-placeholder", "--char-composer-button-bg",
   "--char-composer-button-text", "--char-tool-bg", "--char-tool-border",
   "--char-tool-text", "--char-tool-header-bg", "--char-tool-approve-bg",
   "--char-tool-approve-text", "--char-tool-deny-bg", "--char-tool-deny-text",
   "--char-code-bg", "--char-code-text"}

\* The variables of the complete variable reference.
ReferenceVariables ==
  {"--char-color-primary", "--char-color-primary-foreground",
   "--char-color-background", "--char-color-foreground",
   "--char-color-muted", "--char-color-border",
   "--char-user-bubble-bg", "--char-user-bubble-fg",
   "--char-assistant-bubble-bg", "--char-assistant-bubble-fg",
   "--char-radius", "--char-font-sans"}

Vocabulary == CoreVariables \cup SemanticVariables \cup ReferenceVariables

\* ------------------------------------------- the style extraction example
\* A page like the previewed ones, whose buttons carry type="submit".
withSubmitButtons(d) ==
  [ i \in 1..Len(d) |->
      IF d[i].tag = "button" THEN [d[i] EXCEPT !.attrs = {"type=submit"}]
      ELSE d[i] ]

ExamplePages ==
  HostPages(PreviewKinds, SiteThemes)
  \cup { withSubmitButtons(d) : d \in HostPages(PreviewKinds, SiteThemes) }

\* button[type="submit"]
IsSubmitButton(el) == el.tag = "button" /\ "type=submit" \in el.attrs

\* The object the example script returns when it has a button to read.
extractExampleStyles(d, h, button) ==
  [primary |-> d[button].bg,
   background |-> d[1].bg,
   foreground |-> d[1].color,
   radius |-> d[button].radius,
   fontFamily |-> h.fontFamily]

\* getComputedStyle(button) with no guard: on a page without a submit
\* button, button is null and the call throws a TypeError.
ExtractExampleStyles ==
  LET button == querySelector(dom,
                  { i \in 1..Len(dom) : IsSubmitButton(dom[i]) })
  IN /\ result' = IF button = Nil
                    THEN [op |-> "extractExampleStyles", ok |-> FALSE,
                          value |-> "TypeError"]
                    ELSE [op |-> "extractExampleStyles", ok |-> TRUE,
                          value |-> extractExampleStyles(dom, host, button)]
     /\ UNCHANGED <<dom, clickListeners, closeListeners, host, head, window,
                    requests, extracted, prefersDark, form, idpTool, env>>

\* ------------------------------------------------- Fill/Submit form tools
\* The values a caller can pass for a field.
FieldValues(k) ==
  CASE k = "idp_type" -> {"okta", "auth0"}
    [] k = "client_id" -> {"abc"}
    [] k = "domain" -> {"example.okta.com"}

\* The input objects of idp_form: any subset of the fields, with values.
Inputs ==
  { in \in UNION { [S -> {"okta", "auth0", "abc", "example.okta.com"}] :
                     S \in SUBSET Fields } :
      \A k \in DOMAIN in : in[k] \in FieldValues(k) }

\* { ...formState, ...input }
merge(formState, input) ==
  [k \in Fields |-> IF k \in DOMAIN input THEN input[k] ELSE formState[k]]

\* registerFormTools(): both tools are registered anew, with descriptions
\* built from the current formState and isDirty.
registerFormTools(f) ==
  [f EXCEPT !.fillDescription = describe(f.formState, f.isDirty),
            !.submitDescription = f.isDirty]

\* Mutant: the fill tool saves what it filled in.
fillExecuteAndSave(f, input) ==
  IF DOMAIN input = {} THEN f
  ELSE registerFormTools(
         [f EXCEPT !.formState = merge(f.formState, input),
                   !.isDirty = TRUE,
                   !.shown = [k \in Fields |->
                                IF k \in DOMAIN input THEN input[k]
                                ELSE f.shown[k]],
                   !.backend = merge(f.formState, input)])

\* idp_form.execute(input)
fillExecute(f, input) ==
  IF DOMAIN input = {} THEN f
  ELSE registerFormTools(
         [f EXCEPT !.formState = merge(f.formState, input),
                   !.isDirty = TRUE,
                   !.shown = [k \in Fields |->
                                IF k \in DOMAIN input THEN input[k]
                                ELSE f.shown[k]]])

Fill(input) ==
  /\ form' = fillExecute(form, input)
  /\ result' = IF DOMAIN input = {}
                 THEN [op |-> "idp_form", ok |-> TRUE,
                       value |-> describe(form.formState, form.isDirty)]
                 ELSE [op |-> "idp_form", ok |-> TRUE,
                       value |-> [filled |-> TRUE]]
  /\ UNCHANGED <<dom, clickListeners, closeListeners, host, head, window,
                 requests, extracted, prefersDark, idpTool, env>>

\* idp_submit.execute() up to its await: with nothing dirty it returns an
\* error result; otherwise the POST leaves with the formState of this moment.
SubmitBegin ==
  /\ IF ~form.isDirty
       THEN /\ result' = [op |-> "idp_submit", ok |-> FALSE,
                          value |-> "No changes to save"]
            /\ form' = form
       ELSE /\ Len(form.pending) < MaxPending
            /\ form' = [form EXCEPT !.pending = Append(@, form.formState)]
            /\ result' = result
  /\ UNCHANGED <<dom, clickListeners, closeListeners, host, head, window,
                 requests, extracted, prefersDark, idpTool, env>>

\* How a POST to /api/idp can end.
Outcomes == {"saved", "rejected", "networkError"}

RemoveAt(seq, i) == SubSeq(seq, 1, i - 1) \o SubSeq(seq, i + 1, Len(seq))

\* The rest of idp_submit.execute() once fetch has settled.  fetch resolves
\* whatever the status of the response and rejects on a network error only;
\* after a rejection nothing below the await runs.
submitResume(f, i, outcome) ==
  LET body == f.pending[i]
      g == [f EXCEPT !.pending = RemoveAt(@, i),
                     !.backend = IF outcome = "saved" THEN body ELSE @]
  IN IF outcome = "networkError" THEN g
     ELSE registerFormTools([g EXCEPT !.isDirty = FALSE])

SubmitResume(i, outcome) ==
  /\ i \in 1..Len(form.pending)
  /\ form' = submitResume(form, i, outcome)
  /\ result' = IF outcome = "networkError"
                 THEN [op |-> "idp_submit", ok |-> FALSE,
                       value |-> "TypeError"]
                 ELSE [op |-> "idp_submit", ok |-> TRUE, value |-> "saved"]
  /\ UNCHANGED <<dom, clickListeners, closeListeners, host, head, window,
                 requests, extracted, prefersDark, idpTool, env>>

\* ---------------------------------------------------- Read/Fill form tool
\* Mutant: a field the caller does not provide is reset.
mergeInputOrReset(config, input) ==
  [k \in Fields |-> IF k \in DOMAIN input THEN input[k]
                    ELSE EmptyFormState[k]]

\* idp_type: input.idp_type ?? config.idp_type, and so for each field.
mergeInput(config, input) ==
  [k \in Fields |-> IF k \in DOMAIN input THEN input[k] ELSE config[k]]

\* idp_config.execute(input) up to its await: with no keys it returns the
\* config; otherwise config is assigned and saveToApi(config) is started.
ReadFillCall(input) ==
  /\ IF DOMAIN input = {}
       THEN /\ idpTool' = idpTool
            /\ result' = [op |-> "idp_config read", ok |-> TRUE,
                          value |-> idpTool.config]
       ELSE /\ Len(idpTool.pending) < MaxPending
            /\ idpTool' =
                 [idpTool EXCEPT
                    !.config = mergeInput(idpTool.config, input),
                    !.pending = Append(@, mergeInput(idpTool.config, input))]
            /\ result' = result
  /\ UNCHANGED <<dom, clickListeners, closeListeners, host, head, window,
                 requests, extracted, prefersDark, form, env>>

\* How saveToApi(config) can end.
SaveOutcomes == {"saved", "failed"}

\* The rest of idp_config.execute(input): when saveToApi resolves the tool
\* is registered anew with the config of that moment; when it rejects the
\* call throws and nothing below the await runs.
readFillResume(t, i, outcome) ==
  IF outcome = "saved"
    THEN [t EXCEPT !.pending = RemoveAt(@, i),
                   !.api = t.pending[i],
                   !.description = describeConfig(t.config)]
    ELSE [t EXCEPT !.pending = RemoveAt(@, i)]

ReadFillResume(i, outcome) ==
  /\ i \in 1..Len(idpTool.pending)
  /\ idpTool' = readFillResume(idpTool, i, outcome)
  /\ result' = IF outcome = "saved"
                 THEN [op |-> "idp_config", ok |-> TRUE, value |-> "Saved"]
                 ELSE [op |-> "idp_config", ok |-> FALSE, value |-> "Error"]
  /\ UNCHANGED <<dom, clickListeners, closeListeners, host, head, window,
                 requests, extracted, prefersDark, form, env>>

\* --------------------------------------------------------- verify-setup.js
\* JavaScript values the checks return are written "true", "false", "null"
\* and "object".
Whitespace == {" ", "\n", "\t"}

RECURSIVE trimStart(_)
trimStart(s) ==
  IF s # <<>> /\ Head(s) \in Whitespace THEN trimStart(Tail(s)) ELSE s

RECURSIVE trimEnd(_)
trimEnd(s) ==
  IF s # <<>> /\ s[Len(s)] \in Whitespace
    THEN trimEnd(SubSeq(s, 1, Len(s) - 1))
    ELSE s

trim(s) == trimEnd(trimStart(s))

startsWith(s, prefix) ==
  Len(s) >= Len(prefix) /\ SubSeq(s, 1, Len(prefix)) = prefix

includes(s, c) == \E i \in 1..Len(s) : s[i] = c

\* Mutant: the length of the key is not looked at.
checkApiKeyFormatAnyLength(apiKey) ==
  IF apiKey = <<>> THEN "null"
  ELSE IF ~startsWith(trim(apiKey), KeyPrefix) THEN "false"
  ELSE IF includes(trim(apiKey), "\n") \/ includes(trim(apiKey), " ")
         THEN "false"
  ELSE "true"

checkApiKeyFormat(apiKey) ==
  IF apiKey = <<>> THEN "null"
  ELSE IF ~startsWith(trim(apiKey), KeyPrefix) THEN "false"
  ELSE IF Len(trim(apiKey)) < MinKeyLength THEN "false"
  ELSE IF includes(trim(apiKey), "\n") \/ includes(trim(apiKey), " ")
         THEN "false"
  ELSE "true"

\* curMajor > reqMajor || (curMajor === reqMajor && curMinor >= reqMinor),
\* with required = '14.0.0'
checkNodeVersion(e) ==
  IF e.nodeVersion[1] > 14 \/ (e.nodeVersion[1] = 14 /\ e.nodeVersion[2] >= 0)
    THEN "true" ELSE "false"

\* The loop over the browser commands, from command i on: a command that
\* fails or prints no version is skipped, the first version found ends the
\* loop with true, below 90 as well.
RECURSIVE checkBrowserFrom(_, _)
checkBrowserFrom(e, i) ==
  IF i > Len(e.browsers) THEN "false"
  ELSE IF e.browsers[i].status = "match"
         THEN IF e.browsers[i].version >= 90 THEN "true" ELSE "true"
  ELSE checkBrowserFrom(e, i + 1)

checkBrowser(e) == checkBrowserFrom(e, 1)

\* Both branches return an object, never false.
checkMCPServers(e) == IF ~e.claude THEN "object" ELSE "object"

checkNetworkConnectivity(e) == IF e.network THEN "true" ELSE "false"

\* true with enough space, with little space, and when statfs throws.
checkDiskSpace(e) ==
  IF e.disk.status = "ok"
    THEN IF e.disk.freeMB > 100 THEN "true" ELSE "true"
    ELSE "true"

checkTemplateExists(e) == IF e.template THEN "true" ELSE "false"

\* args.indexOf(x), counted from 1; 0 when x is not an argument.
indexOf(args, x) ==
  IF \E i \in 1..Len(args) : args[i] = x
    THEN Min({ i \in 1..Len(args) : args[i] = x })
    ELSE 0

\* apiKeyIndex !== -1 ? args[apiKeyIndex + 1] : null
apiKeyArgument(args) ==
  IF indexOf(args, CheckApiKeyFlag) # 0
       /\ indexOf(args, CheckApiKeyFlag) + 1 <= Len(args)
    THEN args[indexOf(args, CheckApiKeyFlag) + 1]
    ELSE <<>>

\* The list of checks with what each returned.
checks(e) ==
  <<[name |-> "Node.js version", returned |-> checkNodeVersion(e),
     required |-> TRUE],
    [name |-> "Browser availability", returned |-> checkBrowser(e),
     required |-> TRUE],
    [name |-> "Template files", returned |-> checkTemplateExists(e),
     required |-> TRUE],
    [name |-> "Disk space", returned |-> checkDiskSpace(e),
     required |-> FALSE],
    [name |-> "Network connectivity",
     returned |-> checkNetworkConnectivity(e), required |-> FALSE],
    [name |-> "MCP servers", returned |-> checkMCPServers(e),
     required |-> FALSE]>>
  \o IF apiKeyArgument(e.argv) # <<>>
       THEN <<[name |-> "API key format",
               returned |-> checkApiKeyFormat(apiKeyArgument(e.argv)),
               required |-> TRUE]>>
       ELSE <<>>

\* allPassed and requiredPassed after the loop over the checks.
allPassed(cs) == \A i \in 1..Len(cs) : cs[i].returned # "false"

requiredPassed(cs) ==
  \A i \in 1..Len(cs) : cs[i].returned = "false" => ~cs[i].required

\* Mutant: any failed check fails the run.
mainAllOrNothing(e) ==
  IF allPassed(checks(e))
    THEN [exit |-> 0, report |-> "All required checks passed!",
          warning |-> FALSE]
    ELSE [exit |-> 1, report |-> "Some required checks failed",
          warning |-> FALSE]

main(e) ==
  IF requiredPassed(checks(e))
    THEN [exit |-> 0, report |-> "All required checks passed!",
          warning |-> ~allPassed(checks(e))]
    ELSE [exit |-> 1, report |-> "Some required checks failed",
          warning |-> FALSE]

\* node scripts/verify-setup.js [--check-api-key <key>]
Main ==
  /\ result' = [op |-> "main", ok |-> TRUE, value |-> main(env)]
  /\ UNCHANGED <<dom, clickListeners, closeListeners, host, head, window,
                 requests, extracted, prefersDark, form, idpTool, env>>

\* The keys the format check is tried on: blanks around, a prefix or none,
\* a body of a length around the limit, possibly with a blank inside.
Pads == {<<>>, <<" ">>, <<"\n">>}
Prefixes == {KeyPrefix, <<"s", "k", "-">>, <<>>}
Bodies ==
  { Filler(n) : n \in {0, 42, 43, 60} }
  \cup { [Filler(n) EXCEPT ![20] = c] : n \in {42, 43, 60}, c \in Whitespace }

Keys ==
  { lead \o prefix \o body \o trail :
      lead \in Pads, prefix \in Prefixes, body \in Bodies, trail \in Pads }

\* The exported function, called on a key.
CheckApiKeyFormat ==
  /\ \E apiKey \in Keys :
       result' = [op |-> "checkApiKeyFormat", ok |-> TRUE,
                  value |-> [apiKey |-> apiKey,
                             returned |-> checkApiKeyFormat(apiKey)]]
  /\ UNCHANGED <<dom, clickListeners, closeListeners, host, head, window,
                 requests, extracted, prefersDark, form, idpTool, env>>

\* The machines and command lines the script is run on.
NodeVersions == {<<12, 22>>, <<13, 14>>, <<14, 0>>, <<14, 21>>, <<18, 17>>}

BrowserOutcomes ==
  { <<[status |-> a, version |-> IF a = "match" THEN v ELSE 0],
      [status |-> b, version |-> IF b = "match" THEN 120 ELSE 0],
      [status |-> "failed", version |-> 0],
      [status |-> "failed", version |-> 0]>> :
      a \in {"match", "nomatch", "failed"}, b \in {"match", "failed"},
      v \in {89, 90} }

CommandLines ==
  {<<>>, <<CheckApiKeyFlag>>, <<GoodKey>>,
   <<CheckApiKeyFlag, GoodKey>>, <<CheckApiKeyFlag, ShortKey>>,
   <<CheckApiKeyFlag, ForeignKey>>, <<CheckApiKeyFlag, BlankKey>>}

Environments ==
  [nodeVersion : NodeVersions,
   browsers : BrowserOutcomes,
   template : BOOLEAN,
   disk : {[status |-> "ok", freeMB |-> 5000], [status |-> "ok", freeMB |-> 50],
           [status |-> "thrown", freeMB |-> 0]},
   network : BOOLEAN,
   claude : BOOLEAN,
   argv : CommandLines]

\* ------------------------------------------- the live preview, start to end
\* Summary Checklist: a step is taken once the step before it has left its
\* trace.  Steps 1, 4 and 5 (screenshot, DOM map, CSP check) only look.
VarsNoted == extracted.vars # <<>>
FontsNoted == extracted.fonts # <<>>
BundleFetched == requests > 0
BundleRegistered == window.registered

\* Mutant: the sidebar is built without waiting for the style injection.
CssInjectedOrSkipped == TRUE

CssInjected == head # <<>>
SidebarBuilt == Panels(dom) # {}
WidgetActivated ==
  \E i \in 1..Len(dom) : IsCharAgent(dom[i]) /\ "open" \in dom[i].attrs

Next ==
  \/ BuildInjectedPanel
  \/ \E b \in Toggles(dom) : ToggleClick(b)
  \/ CharClose
  \/ ExtractTokens
  \/ ApplyThemeInPlace
  \/ ToggleSiteTheme
  \/ ActivateWidget

Spec == Init /\ [][Next]_vars

\* Extraction and in-place theming on a page that embeds the widget itself.
InitTheming ==
  /\ dom \in HostPages(ContentKinds, BodyThemes)
  /\ clickListeners = {}
  /\ closeListeners = <<>>
  /\ result = NoResult
  /\ Untouched

NextTheming ==
  \/ ExtractTokens
  \/ ApplyThemeInPlace
  \/ ToggleSiteTheme

SpecTheming == InitTheming /\ [][NextTheming]_vars

\* The live preview up to the injected theme: inspect, fetch, eval, inject.
InitPreview ==
  /\ dom \in HostPages(PreviewKinds, {[bg |-> White, color |-> Ink]})
  /\ clickListeners = {}
  /\ closeListeners = <<>>
  /\ result = NoResult
  /\ host \in Hosts
  /\ head = <<>>
  /\ window = FreshWindow
  /\ requests = 0
  /\ extracted = NothingExtracted
  /\ prefersDark = "unavailable"
  /\ form = InitialForm
  /\ idpTool = InitialTool
  /\ env = DefaultEnv

NextPreview ==
  \/ ExtractCssVariables
  \/ ExtractFonts
  \/ ExtractTokens
  \/ FetchBundle
  \/ EvalBundle
  \/ InjectCss

SpecPreview == InitPreview /\ [][NextPreview]_vars

\* Classifying the colour scheme of a page, on any platform.
InitScheme ==
  /\ dom \in SchemePages
  /\ clickListeners = {}
  /\ closeListeners = <<>>
  /\ result = NoResult
  /\ PreviewIdle
  /\ prefersDark \in Preferences
  /\ form = InitialForm
  /\ idpTool = InitialTool
  /\ env = DefaultEnv

NextScheme ==
  \/ ClassifyColorScheme
  \/ SystemPreferenceChange
  \/ ToggleSiteTheme

SpecScheme == InitScheme /\ [][NextScheme]_vars

\* The two extraction scripts, run on pages with and without submit buttons.
InitExample ==
  /\ dom \in ExamplePages
  /\ clickListeners = {}
  /\ closeListeners = <<>>
  /\ result = NoResult
  /\ host \in Hosts
  /\ head = <<>>
  /\ window = FreshWindow
  /\ requests = 0
  /\ extracted = NothingExtracted
  /\ prefersDark = "unavailable"
  /\ form = InitialForm
  /\ idpTool = InitialTool
  /\ env = DefaultEnv

NextExample ==
  \/ ExtractExampleStyles
  \/ ExtractTokens
  \/ ToggleSiteTheme

SpecExample == InitExample /\ [][NextExample]_vars

\* The form page with its two tools registered.
InitForm ==
  /\ dom = MakePage(0, <<>>, <<>>, [bg |-> White, color |-> Ink])
  /\ clickListeners = {}
  /\ closeListeners = <<>>
  /\ result = NoResult
  /\ Untouched

NextForm ==
  \/ \E input \in Inputs : Fill(input)
  \/ SubmitBegin
  \/ \E i \in 1..MaxPending, outcome \in Outcomes : SubmitResume(i, outcome)

SpecForm == InitForm /\ [][NextForm]_vars

\* The Read/Fill page with its tool registered.
InitReadFill ==
  /\ dom = MakePage(0, <<>>, <<>>, [bg |-> White, color |-> Ink])
  /\ clickListeners = {}
  /\ closeListeners = <<>>
  /\ result = NoResult
  /\ Untouched

NextReadFill ==
  \/ \E input \in Inputs : ReadFillCall(input)
  \/ \E i \in 1..MaxPending, outcome \in SaveOutcomes :
       ReadFillResume(i, outcome)

SpecReadFill == InitReadFill /\ [][NextReadFill]_vars

\* The setup script run on some machine with some command line.
InitVerify ==
  /\ dom = MakePage(0, <<>>, <<>>, [bg |-> White, color |-> Ink])
  /\ clickListeners = {}
  /\ closeListeners = <<>>
  /\ result = NoResult
  /\ PreviewIdle
  /\ prefersDark = "unavailable"
  /\ form = InitialForm
  /\ idpTool = InitialTool
  /\ env \in Environments

NextVerify == Main

SpecVerify == InitVerify /\ [][NextVerify]_vars

\* The format check of the script called on one key after another.
InitApiKey ==
  /\ dom = MakePage(0, <<>>, <<>>, [bg |-> White, color |-> Ink])
  /\ clickListeners = {}
  /\ closeListeners = <<>>
  /\ result = NoResult
  /\ Untouched

NextApiKey == CheckApiKeyFormat

SpecApiKey == InitApiKey /\ [][NextApiKey]_vars

\* The whole live-preview workflow, in the order of the Summary Checklist.
InitWorkflow ==
  /\ dom \in HostPages(LayoutKinds, SiteThemes)
  /\ clickListeners = {}
  /\ closeListeners = <<>>
  /\ result = NoResult
  /\ host \in Hosts
  /\ head = <<>>
  /\ window = FreshWindow
  /\ requests = 0
  /\ extracted = NothingExtracted
  /\ prefersDark = "unavailable"
  /\ form = InitialForm
  /\ idpTool = InitialTool
  /\ env = DefaultEnv

NextWorkflow ==
  \/ ~FontsNoted /\ ExtractCssVariables
  \/ VarsNoted /\ ~FontsNoted /\ ToggleSiteTheme
  \/ VarsNoted /\ ~BundleFetched /\ ExtractFonts
  \/ FontsNoted /\ ~BundleRegistered /\ FetchBundle
  \/ BundleFetched /\ ~BundleRegistered /\ EvalBundle
  \/ BundleRegistered /\ InjectCss
  \/ CssInjected /\ BuildInjectedPanel
  \/ SidebarBuilt /\ ActivateWidget
  \/ WidgetActivated /\ \E b \in Toggles(dom) : ToggleClick(b)
  \/ WidgetActivated /\ ToggleSiteTheme

SpecWorkflow == InitWorkflow /\ [][NextWorkflow]_vars
\* ------------------------------------------------------------------ claims
\* The panel and toggle a pair of handlers was wired to.
Collapsed(d, l) ==
  d[l.panel].style.width = CollapsedWidth /\ d[l.btn].style.display = "flex"
Expanded(d, l) ==
  d[l.panel].style.width = ExpandedWidth /\ d[l.btn].style.display = "none"
PanelState(d, l) ==
  [width |-> d[l.panel].style.width, display |-> d[l.btn].style.display]

\* C1: every injected panel is either Collapsed (width 0, toggle shown) or
\* Expanded (width 420px, toggle hidden); no mixed state is reachable.
C1_PanelTwoStates ==
  \A l \in clickListeners :
    /\ Collapsed(dom, l) \/ Expanded(dom, l)
    /\ ~(Collapsed(dom, l) /\ Expanded(dom, l))

\* C1 witness: a panel that was opened by a click.
C1_Witness == \E l \in clickListeners : Expanded(dom, l)

\* C2: the step that builds the sidebar leaves the new panel Collapsed:
\* width 0 and the toggle shown.
C2_InitiallyCollapsed ==
  [][ \A l \in clickListeners' \ clickListeners : Collapsed(dom', l) ]_vars

\* C2 witness: the sidebar script has just returned and its panel is closed.
C2_Witness ==
  /\ result.op = "buildInjectedPanel"
  /\ result.ok
  /\ \E l \in clickListeners : Collapsed(dom, l)

\* C3: the width of a panel and the visibility of its toggle change only in
\* a toggle click or a 'char-close' event; extraction, theming, the site's
\* theme switch and widget activation leave them alone.
C3_OnlyToggleChangesPanel ==
  [][ (\E l \in clickListeners : PanelState(dom', l) # PanelState(dom, l))
        => \/ \E b \in Toggles(dom) : ToggleClick(b)
           \/ CharClose ]_vars

\* C3 witness: the widget was activated while its panel was open.
C3_Witness ==
  /\ result.op = "activateWidget"
  /\ result.ok
  /\ \E l \in clickListeners : Expanded(dom, l)

\* What the sidebar script may not touch on an element that existed before.
SameParent(d, e, i) == e[i].parent = d[i].parent
SameChildOrder(d, e, i) ==
  /\ Len(e[i].children) >= Len(d[i].children)
  /\ SubSeq(e[i].children, 1, Len(d[i].children)) = d[i].children
  /\ \A k \in (Len(d[i].children) + 1)..Len(e[i].children) :
       e[i].children[k] > Len(d)
SameStyle(d, e, i) == e[i].style = d[i].style
SameStyleButOverflow(d, e, i) ==
  [e[i].style EXCEPT !.overflow = ""] = [d[i].style EXCEPT !.overflow = ""]

\* C4 as claimed: the sidebar script changes no parent, child order or own
\* style of an element that existed before it ran.
C4_StrictlyAdditive ==
  [][ BuildInjectedPanel =>
        \A i \in 1..Len(dom) :
          /\ SameParent(dom, dom', i)
          /\ SameChildOrder(dom, dom', i)
          /\ SameStyle(dom, dom', i) ]_vars

\* C4 amended: as C4, except that the app shell's own overflow is set to
\* hidden; every other own style property of every element is kept.
C4_AdditiveButOverflow ==
  [][ BuildInjectedPanel =>
        \A i \in 1..Len(dom) :
          /\ SameParent(dom, dom', i)
          /\ SameChildOrder(dom, dom', i)
          /\ SameStyleButOverflow(dom, dom', i)
          /\ (dom'[i].style.overflow # dom[i].style.overflow
                => i = FindAppShell(dom) /\ dom'[i].style.overflow = "hidden")
          /\ dom'[i].tag = dom[i].tag /\ dom'[i].cls = dom[i].cls
          /\ dom'[i].vars = dom[i].vars /\ dom'[i].attrs = dom[i].attrs ]_vars

\* C4 witness: the sidebar was built into a shell that already had a child.
C4_Witness ==
  /\ result.op = "buildInjectedPanel"
  /\ result.ok
  /\ \E p \in Panels(dom) : Len(dom[dom[p].parent].children) >= 2

\* The error the other scripts fail with (widget activation on a page with
\* no <char-agent>).
GenericFailures == {"TypeError"}

\* C5 as claimed: on a page with no flex container the sidebar script ends
\* with a failure of its own kind and leaves no panel and no toggle.
C5_DedicatedInjectionFailure ==
  (result.op = "buildInjectedPanel" /\ ~result.ok)
    => /\ result.value \notin GenericFailures
       /\ Panels(dom) = {} /\ Toggles(dom) = {}
\* The last script was the styling snippet and it found a <char-agent>.
Themed == result.op = "applyThemeInPlace" /\ result.value.agent # Nil

HasAnchor(d) == querySelector(d, { i \in 1..Len(d) : IsAnchor(d[i]) }) # Nil

\* C7 as claimed: when the page yields no primary colour (it has no anchor
\* to read one from), the styling snippet leaves --char-color-primary unset.
C7_NoInventedPrimary ==
  (Themed /\ ~HasAnchor(dom))
    => dom[result.value.agent].vars["--char-color-primary"] = Absent

PrimaryCandidates(d) == { i \in 1..Len(d) : IsPrimaryCandidate(d[i]) }

\* C8 as claimed: when every primary-colour candidate is missing or
\* transparent the extracted primaryColor is absent, and cornerRadius always
\* has a value.
C8_AbsentNotGuessed ==
  result.op = "extractTokens" =>
    /\ (\A i \in PrimaryCandidates(dom) : dom[i].bg = Transparent)
         => result.value.primaryColor = Absent
    /\ result.value.cornerRadius # ""

\* Enabled buttons with a visible background: the call-to-action buttons.
CallToActionButtons(d) ==
  { i \in 1..Len(d) :
      d[i].tag = "button" /\ ~d[i].disabled /\ d[i].bg # Transparent }

\* C9 as claimed: on a page with an enabled, visibly coloured button the
\* extracted primaryColor is that button's background, whatever other
\* candidates the page has and wherever they are.
C9_ButtonWins ==
  (result.op = "extractTokens" /\ CallToActionButtons(dom) # {})
    => \E i \in CallToActionButtons(dom) : result.value.primaryColor = dom[i].bg

\* C10: the extracted backgroundColor and foregroundColor are always
\* present values.
C10_BackgroundForegroundPresent ==
  result.op = "extractTokens" =>
    /\ result.value.backgroundColor # Absent
    /\ result.value.foregroundColor # Absent

\* C10 witness: extraction on a page whose body sets no background.
C10_Witness ==
  /\ result.op = "extractTokens"
  /\ dom[1].bg = Transparent
  /\ result.value.backgroundColor = Transparent
  /\ result.value.foregroundColor = Black

\* C11: running the Token Extractor changes nothing: the DOM tree, every
\* element's styles and attributes, the listeners and the page-global state
\* are the same after each extractor call as before it, however many calls
\* are made.
ExtractorCall == ExtractCssVariables \/ ExtractFonts \/ ExtractTokens

PageState == <<dom, clickListeners, closeListeners, host, head, window>>

C11_ExtractionChangesNothing == [][ExtractorCall => UNCHANGED PageState]_vars

\* All three extraction scripts have run, the last one on a themed page.
C11_Witness ==
  /\ extracted.vars # <<>>
  /\ extracted.fonts # <<>>
  /\ result.op = "extractTokens"
  /\ head # <<>>

\* C12: classifyColorScheme follows three tiers in order: a background that
\* parses to RGB is classified by its luminance alone, whatever the system
\* preference; otherwise an available system preference is the result;
\* otherwise the result is light.
Classified == result.op = "classifyColorScheme"

C12_ThreeTiers ==
  Classified =>
    LET v == result.value
    IN IF parseRgb(v.backgroundColor) # Absent
         THEN v.colorScheme =
                classifyColorScheme(v.backgroundColor, "unavailable")
         ELSE IF v.preference \in {"dark", "light"}
                THEN v.colorScheme = v.preference
                ELSE v.colorScheme = "light"

\* A white page classified on a platform that prefers dark.
C12_Witness ==
  /\ Classified
  /\ result.value.backgroundColor = White
  /\ result.value.preference = "dark"
  /\ result.value.colorScheme = "light"

\* C13: a parseable background (R, G, B) is classified light exactly when
\* 299 R + 587 G + 114 B > 127500 and dark otherwise; white is light, black
\* is dark and rgb(17, 24, 39) is dark.
C13_LuminanceThreshold ==
  (Classified /\ Len(result.value.backgroundColor) >= 3) =>
    LET c == result.value.backgroundColor
        scheme == result.value.colorScheme
    IN /\ scheme \in {"light", "dark"}
       /\ scheme = "light" <=> 299 * c[1] + 587 * c[2] + 114 * c[3] > 127500
       /\ c = White => scheme = "light"
       /\ c = Black => scheme = "dark"
       /\ c = Night => scheme = "dark"

\* The colour of luminance exactly one half has been classified, as dark.
C13_Witness ==
  /\ Classified
  /\ result.value.backgroundColor = HalfLuminance
  /\ result.value.colorScheme = "dark"

\* C14: every variable name the theme mapper/injector writes belongs to the
\* widget's documented vocabulary (the core and semantic --char-* variables);
\* after any sequence of theme applications no other variable has been set.
C14_OnlyVocabularyWritten ==
  /\ \A i \in 1..Len(head) : DOMAIN head[i] \subseteq Vocabulary
  /\ InPlaceVars \subseteq Vocabulary

\* C17: on a page where a cascade finds no matching element (for example a
\* page with no button) extraction completes normally and returns the field
\* as absent; it never raises an error for a missing candidate.
SubmitButtons(d) == { i \in 1..Len(d) : IsSubmitButton(d[i]) }

C17_MissingCandidateIsAbsent ==
  /\ (result.op = "extractTokens" /\ PrimaryCandidates(dom) = {}) =>
       (result.ok /\ result.value.primaryColor = Absent)
  /\ (result.op = "extractExampleStyles" /\ SubmitButtons(dom) = {}) =>
       (result.ok /\ result.value.primary = Absent)

\* C18: when the fetch of the widget bundle fails (a network error or a
\* non-success response) the failure is reported to the caller and the failed
\* response is never stored or evaluated as the bundle.
C18_FailedFetchNotStored ==
  /\ window.charCode # "errorBody"
  /\ (result.op = "fetchBundle" /\ result.value.response # "ok") => ~result.ok

\* C19: whenever the primary colour is present, the primary-foreground
\* variable the mapper produces is pure black or pure white, the one of the
\* two with the higher contrast against the primary; it is never a page value.
\* (Black is the better contrast on a primary of luminance above one half.)
higherContrastOn(primary) ==
  IF luminance(parseRgb(primary)) > 127500 THEN Black ELSE White

C19_PrimaryForegroundComputed ==
  \A i \in 1..Len(head) :
    head[i]["--char-color-primary"] # Absent =>
      /\ head[i]["--char-color-primary-foreground"] \in {Black, White}
      /\ head[i]["--char-color-primary-foreground"] =
           higherContrastOn(head[i]["--char-color-primary"])

\* C20: in the Fill/Submit pattern the backend state changes only in a submit
\* call: a fill call, with or without input, never writes to the backend, and
\* the backend state is the same before and after it.
FillCall == \E input \in Inputs : Fill(input)

SubmitCall ==
  SubmitBegin \/ \E i \in 1..MaxPending, outcome \in Outcomes :
                   SubmitResume(i, outcome)

C20_OnlySubmitWritesBackend ==
  [][/\ FillCall => form'.backend = form.backend
     /\ form'.backend # form.backend => SubmitCall]_vars

\* A configuration was saved and the form was filled with other values after.
C20_Witness ==
  /\ form.backend # NothingSaved
  /\ form.isDirty
  /\ form.formState # form.backend
  /\ result.op = "idp_form"

\* C21: a Read/Fill call with no values returns the current state and leaves
\* it unchanged; a call with values produces the state in which each provided
\* field has the input value and every field not provided keeps its value.
C21_ReadFillMerge ==
  [][\A input \in Inputs :
       ReadFillCall(input) =>
         IF DOMAIN input = {}
           THEN /\ idpTool'.config = idpTool.config
                /\ result'.value = idpTool.config
           ELSE \A k \in Fields :
                  idpTool'.config[k] =
                    IF k \in DOMAIN input THEN input[k]
                    ELSE idpTool.config[k]]_vars

\* A partial update on top of an earlier one: the provider was set before and
\* is kept while another field is being saved.
C21_Witness ==
  /\ idpTool.api # NothingSaved
  /\ idpTool.pending # <<>>
  /\ idpTool.config["idp_type"] = idpTool.api["idp_type"]
  /\ idpTool.config # idpTool.api

\* C27: once a fill call of the self-registering Read/Fill tool has completed,
\* the description of the registered idp_config tool states the current
\* value of config.idp_type; it is never left describing an older state.
C27_DescriptionCurrent ==
  idpTool.pending = <<>> =>
    idpTool.description = describeConfig(idpTool.config)

\* C22: main exits with status 0 and reports that all required checks passed
\* exactly when none of the required checks (Node.js version, browser,
\* template files, and the API key format when --check-api-key is given)
\* returned false; a failing optional check never changes the exit status.
RequiredCheckFailed(e) ==
  \/ checkNodeVersion(e) = "false"
  \/ checkBrowser(e) = "false"
  \/ checkTemplateExists(e) = "false"
  \/ /\ indexOf(e.argv, CheckApiKeyFlag) # 0
     /\ checkApiKeyFormat(apiKeyArgument(e.argv)) = "false"

C22_ExitStatus ==
  result.op = "main" =>
    /\ result.value.exit = 0 <=> ~RequiredCheckFailed(env)
    /\ result.value.exit = 0 <=>
         result.value.report = "All required checks passed!"
    /\ result.value.exit \in {0, 1}

\* The run passed although the network check failed.
C22_Witness ==
  /\ result.op = "main"
  /\ result.value.exit = 0
  /\ checkNetworkConnectivity(env) = "false"
  /\ result.value.warning

\* C28: checkApiKeyFormat returns null when no key is given; otherwise it
\* returns true exactly when the trimmed key starts with "sk-ant-", is at
\* least 50 characters long and contains no space or newline, and false in
\* every other case.
WellFormed(key) ==
  /\ Len(key) >= 7
  /\ SubSeq(key, 1, 7) = <<"s", "k", "-", "a", "n", "t", "-">>
  /\ Len(key) >= 50
  /\ \A i \in 1..Len(key) : key[i] \notin {" ", "\n"}

C28_ApiKeyFormat ==
  result.op = "checkApiKeyFormat" =>
    LET apiKey == result.value.apiKey
        returned == result.value.returned
    IN IF apiKey = <<>> THEN returned = "null"
       ELSE /\ returned \in {"true", "false"}
            /\ returned = "true" <=> WellFormed(trim(apiKey))

\* A key of exactly 50 characters followed by a newline was accepted.
C28_Witness ==
  /\ result.op = "checkApiKeyFormat"
  /\ result.value.apiKey = GoodKey \o <<"\n">>
  /\ result.value.returned = "true"

\* C26: a submit call made while isDirty is false returns an error result and
\* writes nothing to the backend; a submit call made while isDirty is true
\* writes formState to the backend and sets isDirty to false only after that
\* write has succeeded: if the write fails, isDirty stays true.
C26_CleanOnlyAfterWrite ==
  [][/\ (SubmitBegin /\ ~form.isDirty) =>
          (~result'.ok /\ form'.backend = form.backend)
     /\ (form.isDirty /\ ~form'.isDirty) =>
          \E i \in 1..Len(form.pending) : form'.backend = form.pending[i]]_vars

\* C29: in every reachable state, also when a fill call runs while a submit
\* call is awaiting the backend write, isDirty = false implies that the state
\* last written to the backend equals the current formState.
C29_CleanMeansSaved ==
  (~form.isDirty /\ form.backend # NothingSaved) =>
    form.backend = form.formState

\* C23: extractPrimaryColor walks the candidates in order and returns the
\* colour of the first candidate that yields a non-transparent value; a later
\* candidate's colour is returned only if every earlier one yielded none.
\* (No element of the modelled pages has a border, so a candidate yields its
\* background or nothing; the order is the document order of the candidates.)
ColouredCandidates(d) ==
  { i \in PrimaryCandidates(d) : d[i].bg # Transparent }

C23_FirstColouredCandidate ==
  (result.op = "extractTokens" /\ ColouredCandidates(dom) # {}) =>
    result.value.primaryColor =
      dom[querySelector(dom, ColouredCandidates(dom))].bg

\* C24: extractCornerRadius returns the first non-zero computed radius among
\* the candidates in order, skipping those whose radius is zero; it returns
\* the default exactly when every candidate yields zero or there is none,
\* and it never returns a zero radius.
RoundedCandidates(d) ==
  { i \in 1..Len(d) : IsRadiusCandidate(d[i]) /\ d[i].radius # "0px" }

C24_FirstNonZeroRadius ==
  result.op = "extractTokens" =>
    /\ result.value.cornerRadius # "0px"
    /\ result.value.cornerRadius =
         IF RoundedCandidates(dom) = {} THEN DefaultRadius
         ELSE dom[querySelector(dom, RoundedCandidates(dom))].radius

\* C30: the panel's state after a toggle click or a 'char-close' event
\* depends only on that event: a click leaves the clicked panel Expanded
\* (width 420px, border var(--border), toggle hidden) whether it was
\* Collapsed or already Expanded, and a close leaves every panel Collapsed
\* (width 0, transparent border, toggle shown as flex) whether it was
\* Expanded or already Collapsed; so a click followed by a close restores
\* the collapsed values.
C30_LastEventDecides ==
  [][ /\ \A l \in clickListeners :
           ToggleClick(l.target) =>
             /\ Expanded(dom', l)
             /\ dom'[l.panel].style.borderColor = "var(--border)"
      /\ CharClose =>
           \A l \in clickListeners :
             /\ Collapsed(dom', l)
             /\ dom'[l.panel].style.borderColor = "transparent" ]_vars

\* C30 witness: the toggle of a freshly built sidebar was clicked, and the
\* panel carries all three expanded values.
C30_Witness ==
  /\ result.op = "buildInjectedPanel"
  /\ result.ok
  /\ \E l \in clickListeners :
       /\ Expanded(dom, l)
       /\ dom[l.panel].style.borderColor = "var(--border)"

\* C25 as amended: in every run of the live-preview workflow, the page and
\* its <head> change only in the site's own light/dark switch, or, once both
\* extraction steps have returned their tokens, in the style injection, the
\* panel insertion, the activation of the widget and the click on the toggle.
ExtractionComplete == VarsNoted /\ FontsNoted

C25_MutationsFollowExtraction ==
  [][ <<dom, head>>' # <<dom, head>> =>
        \/ ToggleSiteTheme
        \/ /\ ExtractionComplete
           /\ \/ InjectCss
              \/ BuildInjectedPanel
              \/ ActivateWidget
              \/ \E b \in Toggles(dom) : ToggleClick(b) ]_vars

\* C25 as stated: the page and its <head> change only in the style injection
\* and the panel insertion, and never before extraction has completed.
C25_OnlyInjectionMutates ==
  [][ <<dom, head>>' # <<dom, head>> =>
        /\ ExtractionComplete
        /\ InjectCss \/ BuildInjectedPanel ]_vars

\* C25 witness: the workflow reached activation: tokens extracted, the style
\* element in <head>, the sidebar in the page and the widget switched on.
C25_Witness ==
  /\ result.op = "activateWidget"
  /\ result.ok
  /\ ExtractionComplete
  /\ CssInjected
  /\ SidebarBuilt

====
